---- MODULE Spec2Model ----
(***************************************************************************)
(* One batch of pg_legacy_replication's ItemGenerator: the replication     *)
(* stream is fed message by message to a MessageConsumer, which buffers    *)
(* row items per table, tracks the last COMMIT and decides when to stop;   *)
(* the generator's finally block then acknowledges, yields the buffered    *)
(* groups and closes the connection.                                       *)
(* BatchesSpec lets the caller iterate the generator again; LiveSpec is   *)
(* the batch with the progress of the finally block and of the caller;     *)
(* SlotSpec is the slot functions (create, drop, init_replication)         *)
(* against a server.                                                       *)
(* Source: src/sources/pg_legacy_replication/helpers.py, schema_types.py   *)
(***************************************************************************)
EXTENDS Integers, Sequences, FiniteSets, TLC

\* ------------------------------------------------------------------ bounds
\* messages the stream delivers to the consumer in one batch
MaxMsgs == 5
\* largest upto_lsn a batch is configured with
MaxUpto == 5
\* largest target_batch_size a batch is configured with
MaxBatchSize == 2
\* calls of the slot functions in one run
MaxSlotCalls == 3
\* how far the server's write-ahead log grows in one run
MaxWal == 2

\* the consumer's last_commit_lsn / last_commit_ts before any assignment:
\* __init__ only annotates them, the attribute does not exist yet
Unset == -1
\* ItemGenerator.last_commit_lsn's default (None)
None == -2

\* ------------------------------------------------------------ configuration
\* the fully qualified names the batch replicates (table_qnames); a qualified
\* name schema."name" is the pair <<schema, name>>
table_qnames == {<<"public", "t">>, <<"public", "u">>}
\* a table of another schema with the same name as a replicated one
OtherTable == <<"other", "t">>
NoTable == <<"", "">>
\* the slot names the callers use; the generator's slot is the first
slot_names == {"s1", "s2"}
slot_name == "s1"
\* no table of this model has included_columns configured
included_columns == [t \in {} |-> {}]

\* msg.table.split(".")[1]
TableName(qname) == qname[2]

\* -------------------------------------------------------------- wire data
\* a datum of a tuple: decoderbufs' DatumMessage
Datum(name, oid, mod, pkey, isnull) ==
    [column_name |-> name, column_type |-> oid, atttypmod |-> mod,
     part_of_pkey |-> pkey, isnull |-> isnull]
TypeInfo(modifier, optional) == [modifier |-> modifier, value_optional |-> optional]

\* the row shapes the stream carries: "int" is the table as created,
\* "varchar10" the table after column c was altered to character varying(10)
\* (atttypmod is the length + 4), "text" after it was altered to character
\* varying without a length
NewTuple(shape) ==
    CASE shape = "int" ->
            << Datum("id", 23, -1, TRUE, FALSE), Datum("c", 23, -1, FALSE, FALSE) >>
      [] shape = "varchar10" ->
            << Datum("id", 23, -1, TRUE, FALSE), Datum("c", 1043, 14, FALSE, FALSE) >>
      [] OTHER ->
            << Datum("id", 23, -1, TRUE, FALSE), Datum("c", 1043, -1, FALSE, FALSE) >>
NewTypeinfo(shape) ==
    CASE shape = "int" ->
            << TypeInfo("integer", FALSE), TypeInfo("integer", TRUE) >>
      [] shape = "varchar10" ->
            << TypeInfo("integer", FALSE), TypeInfo("character varying(10)", TRUE) >>
      [] OTHER ->
            << TypeInfo("integer", FALSE), TypeInfo("character varying", TRUE) >>
\* the old tuple of a DELETE under the default replica identity: every column
\* of the table, the key with its value and the others null
OldTuple == << Datum("id", 23, -1, TRUE, FALSE), Datum("c", 23, -1, FALSE, TRUE) >>
\* the old tuple of a DELETE the server decoded without a replica identity
NoOldTuple == << >>

\* a decoded RowMessage together with the ReplicationMessage's data_start
RowMessage(op, table, time, new, old, typeinfo, lsn) ==
    [op |-> op, table |-> table, commit_time |-> time, new_tuple |-> new,
     old_tuple |-> old, new_typeinfo |-> typeinfo, data_start |-> lsn]
NoMsg == RowMessage("NONE", NoTable, 0, <<>>, <<>>, <<>>, 0)

\* the change messages a transaction of the stream may carry, at lsn
ChangeMsgs(time, lsn) ==
    { RowMessage("INSERT", <<"public", "t">>, time, NewTuple("int"), <<>>, NewTypeinfo("int"), lsn),
      RowMessage("INSERT", <<"public", "t">>, time, NewTuple("text"), <<>>, NewTypeinfo("text"), lsn),
      RowMessage("INSERT", <<"public", "t">>, time, NewTuple("varchar10"), <<>>, NewTypeinfo("varchar10"), lsn),
      RowMessage("UPDATE", <<"public", "t">>, time, NewTuple("int"), <<>>, NewTypeinfo("int"), lsn),
      RowMessage("DELETE", <<"public", "t">>, time, <<>>, OldTuple, <<>>, lsn),
      RowMessage("DELETE", <<"public", "t">>, time, <<>>, NoOldTuple, <<>>, lsn),
      RowMessage("INSERT", <<"public", "u">>, time, NewTuple("int"), <<>>, NewTypeinfo("int"), lsn),
      RowMessage("INSERT", OtherTable, time, NewTuple("int"), <<>>, NewTypeinfo("int"), lsn) }

\* --------------------------------------------------------- schema_types.py
Empty == [x \in {} |-> 0]
\* a dict without the entries whose value is None
Opt(key, val) == IF val = None THEN Empty ELSE [k \in {key} |-> val]

\* _PG_TYPES.get(type_id)
_PG_TYPES(type_id) ==
    CASE type_id = 16 -> "boolean"
      [] type_id = 17 -> "bytea"
      [] type_id = 20 -> "bigint"
      [] type_id = 21 -> "smallint"
      [] type_id = 23 -> "integer"
      [] type_id = 701 -> "double precision"
      [] type_id = 1043 -> "character varying"
      [] type_id = 1082 -> "date"
      [] type_id = 1083 -> "time without time zone"
      [] type_id = 1184 -> "timestamp with time zone"
      [] type_id = 1700 -> "numeric"
      [] type_id = 3802 -> "jsonb"
      [] OTHER -> "none"

_get_precision(type_id, atttypmod) ==
    CASE type_id = 21 -> 16
      [] type_id = 23 -> 32
      [] type_id = 20 -> 64
      [] type_id = 1700 /\ atttypmod # -1 -> ((atttypmod - 4) \div 65536) % 65536
      [] type_id \in {1083, 1184} /\ atttypmod # -1 -> atttypmod
      [] type_id = 1043 /\ atttypmod # -1 -> atttypmod - 4
      [] OTHER -> None

_get_scale(type_id, atttypmod) ==
    CASE atttypmod # -1 /\ type_id \in {21, 23, 20} -> 0
      [] atttypmod # -1 /\ type_id = 1700 -> (atttypmod - 4) % 65536
      [] OTHER -> None

\* the destination's type mapper, from_db_type(pg_type, precision, scale): the
\* data type of the postgres type (text when unknown), with the precision and
\* the scale that are not None
from_db_type(pg_type, precision, scale) ==
    [data_type |->
        CASE pg_type = "boolean" -> "bool"
          [] pg_type = "bytea" -> "binary"
          [] pg_type \in {"bigint", "smallint", "integer"} -> "bigint"
          [] pg_type = "double precision" -> "double"
          [] pg_type = "date" -> "date"
          [] pg_type = "time without time zone" -> "time"
          [] pg_type = "timestamp with time zone" -> "timestamp"
          [] pg_type = "numeric" -> "decimal"
          [] pg_type = "jsonb" -> "complex"
          [] OTHER -> "text"]
    @@ Opt("precision", precision) @@ Opt("scale", scale)

_to_dlt_column_type(type_id, atttypmod) ==
    from_db_type(_PG_TYPES(type_id), _get_precision(type_id, atttypmod),
                 _get_scale(type_id, atttypmod))

\* {**dlt_column_type, "name": ..., "primary_key": ...}
_to_dlt_column_schema(col) ==
    [name |-> col.column_name, primary_key |-> col.part_of_pkey]
    @@ _to_dlt_column_type(col.column_type, col.atttypmod)

\* the second argument infer_table_schema passes: nullable is set from the
\* TypeInfo's value_optional when there is one
WithTypeInfo(col_schema, has_typeinfo, typeinfo) ==
    IF has_typeinfo
    THEN [nullable |-> typeinfo.value_optional] @@ col_schema
    ELSE col_schema

\* ------------------------------------------------------ schemas, helpers.py
\* a table schema is [name, columns]; columns is the ordered mapping of the
\* column names to their schemas, kept as the sequence of the schemas
LsnColumn == [data_type |-> "bigint", name |-> "lsn", nullable |-> TRUE]
DeletedTsColumn == [data_type |-> "timestamp", name |-> "deleted_ts", nullable |-> TRUE]

Included(included, name) == included = {} \/ name \in included

RECURSIVE InferColumns(_, _, _, _)
InferColumns(msg, tuples, included, i) ==
    IF i > Len(tuples) THEN <<>>
    ELSE LET col == tuples[i]
             rest == InferColumns(msg, tuples, included, i + 1)
         IN IF Included(included, col.column_name)
            THEN << WithTypeInfo(_to_dlt_column_schema(col), msg.op # "DELETE",
                                 IF msg.op # "DELETE" THEN msg.new_typeinfo[i]
                                                      ELSE TypeInfo("", FALSE)) >> \o rest
            ELSE rest

infer_table_schema(msg, included) ==
    LET is_change == msg.op # "DELETE"
        tuples == IF is_change THEN msg.new_tuple ELSE msg.old_tuple
    IN [name |-> TableName(msg.table),
        columns |-> InferColumns(msg, tuples, included, 1)
                    \o << LsnColumn, DeletedTsColumn >>]

ALLOWED_COL_SCHEMA_FIELDS == {"name", "data_type", "nullable", "precision", "scale"}

\* new["columns"].get(name): the index of the column, 0 when there is none
ColumnIndex(columns, name) ==
    IF \E i \in 1..Len(columns) : columns[i].name = name
    THEN CHOOSE i \in 1..Len(columns) : columns[i].name = name
    ELSE 0

\* the two assertions compare_schemas makes on one column of last
ColumnError(s1, new) ==
    LET j == ColumnIndex(new.columns, s1.name)
    IN IF j = 0 \/ new.columns[j].data_type # s1.data_type THEN "incompatible"
       ELSE IF DOMAIN new.columns[j] \ ALLOWED_COL_SCHEMA_FIELDS # {} THEN "unexpected"
       ELSE "none"

\* s1.get(key, s2.get(key)) under `if key in s1 or key in s2`
Prefer(key, s1, s2) ==
    IF key \in DOMAIN s1 THEN [k \in {key} |-> s1[key]]
    ELSE IF key \in DOMAIN s2 THEN [k \in {key} |-> s2[key]]
    ELSE Empty

\* the merged column without the nullable of either schema
MergeColumn_no_nullable(s1, s2) ==
    [name |-> s1.name, data_type |-> s1.data_type]
    @@ Prefer("precision", s1, s2) @@ Prefer("scale", s1, s2)

\* col_schema of compare_schemas: name and data_type of last, and nullable,
\* precision and scale of last or else of new
MergeColumn(s1, s2) ==
    [name |-> s1.name, data_type |-> s1.data_type]
    @@ Prefer("nullable", s1, s2) @@ Prefer("precision", s1, s2) @@ Prefer("scale", s1, s2)

\* compare_schemas(last, new): error is the AssertionError raised ("none" when
\* it returns), schema the merged schema it returns
compare_schemas(last, new) ==
    LET bad == { i \in 1..Len(last.columns) : ColumnError(last.columns[i], new) # "none" }
        first == CHOOSE i \in bad : \A k \in bad : i <= k
    IN IF last.name # new.name THEN [error |-> "names", schema |-> last]
       ELSE IF bad # {} THEN [error |-> ColumnError(last.columns[first], new), schema |-> last]
       ELSE [error |-> "none",
             schema |-> [name |-> last.name,
                         columns |-> [i \in 1..Len(last.columns) |->
                            MergeColumn(last.columns[i],
                                        new.columns[ColumnIndex(new.columns, last.columns[i].name)])]]]

\* hash_typeinfo: blake2b-64 of repr of the (modifier, value_optional) tuple;
\* the digest is taken to be collision free on the tuples of the model, and
\* is computed as a positional code of the entries (far below 2^64 for the
\* tuples of the model, so the 64-bit truncation never applies)
ModifierCode(modifier) ==
    CASE modifier = "integer" -> 1
      [] modifier = "character varying" -> 2
      [] modifier = "numeric" -> 3
      [] modifier = "character varying(10)" -> 4
      [] OTHER -> 5
RECURSIVE HashFrom(_, _)
HashFrom(typeinfo, i) ==
    IF i = 0 THEN 1
    ELSE (HashFrom(typeinfo, i - 1) * 16
          + 2 * ModifierCode(typeinfo[i].modifier)
          + (IF typeinfo[i].value_optional THEN 1 ELSE 0))
hash_typeinfo(new_typeinfo) == HashFrom(new_typeinfo, Len(new_typeinfo))

\* _to_dlt_val(data, data_type, for_delete): the kind of value decoded from a
\* datum, the dummy of the data type for a null datum of a DELETE
_to_dlt_val(data, data_type, for_delete) ==
    IF data.isnull
    THEN IF for_delete THEN [kind |-> "dummy", of |-> data_type]
                       ELSE [kind |-> "null", of |-> data_type]
    ELSE [kind |-> "value", of |-> data_type]

\* _epoch_micros_to_datetime(commit_time)
_epoch_micros_to_datetime(micros) == [datetime |-> micros]
NoTime == [datetime |-> Unset]

\* gen_data_item(msg, column_schema, included_columns): error is "KeyError"
\* when a datum's column is not in column_schema; vals are the decoded
\* (column, value) pairs in the order of the row
RECURSIVE RowVals(_, _, _, _, _)
RowVals(row, column_schema, included, for_delete, i) ==
    IF i > Len(row) THEN <<>>
    ELSE LET data == row[i]
             rest == RowVals(row, column_schema, included, for_delete, i + 1)
         IN IF ~Included(included, data.column_name) THEN rest
            ELSE << [name |-> data.column_name,
                     val |-> _to_dlt_val(data,
                               column_schema[ColumnIndex(column_schema, data.column_name)].data_type,
                               for_delete)] >> \o rest

\* gen_data_item without the deleted_ts of a DELETE
gen_data_item_no_deleted_ts(msg, column_schema, included) ==
    LET row == IF msg.op # "DELETE" THEN msg.new_tuple ELSE msg.old_tuple
        missing == \E i \in 1..Len(row) :
                      /\ Included(included, row[i].column_name)
                      /\ ColumnIndex(column_schema, row[i].column_name) = 0
    IN IF missing THEN [error |-> "KeyError", item |-> [vals |-> <<>>]]
       ELSE [error |-> "none",
             item |-> [vals |-> RowVals(row, column_schema, included, msg.op = "DELETE", 1)]]

gen_data_item(msg, column_schema, included) ==
    LET row == IF msg.op # "DELETE" THEN msg.new_tuple ELSE msg.old_tuple
        missing == \E i \in 1..Len(row) :
                      /\ Included(included, row[i].column_name)
                      /\ ColumnIndex(column_schema, row[i].column_name) = 0
    IN IF missing THEN [error |-> "KeyError", item |-> [vals |-> <<>>]]
       ELSE [error |-> "none",
             item |-> [vals |-> RowVals(row, column_schema, included, msg.op = "DELETE", 1)]
                      @@ (IF msg.op = "DELETE"
                          THEN [deleted_ts |-> _epoch_micros_to_datetime(msg.commit_time)]
                          ELSE Empty)]

\* ------------------------------------------------------------------- state
VARIABLES
    \* ItemGenerator
    pc,                 \* where __iter__ stands: "new", "stream", "finally", "yield", "done"
    upto_lsn, target_batch_size, start_lsn,
    gen_last_commit_lsn, generated_all,
    yielded,            \* groups the for loop of the finally block has yielded
    exc,                \* what ended consume_stream: "none", "StopReplication",
                        \* "AssertionError" (a fatal error of the handler), "Cancel"
    raised,             \* the exception that reached the caller of the generator
    abandoned,          \* the caller closed the generator while it was suspended
    \* the replication connection and the server
    conn_open,          \* the connection of the batch is open
    slot_flush_lsn,     \* the flush position the server holds for the slot
    in_txn, txn, txn_time,  \* the stream: inside a transaction, its number and commit time
    \* MessageConsumer
    consumed_all, data_items, last_table_schema, last_table_hashes,
    last_commit_ts, last_commit_lsn,
    \* observation
    events,             \* acknowledgements, yields, records and the close, in order
    emitted,            \* the TableItems handed to the caller, in order
    n_msgs,             \* messages handed to the consumer
    last_msg,           \* the message the consumer processed last
    outcome,            \* how that call ended: "ok", "StopReplication", "AssertionError"
    committed,          \* the transactions whose COMMIT the consumer processed,
                        \* each with the data_start of its COMMIT
    \* the replication slots
    slot_server,        \* the server: its slots (name -> what it keeps of the
                        \* slot), its write-ahead position, the snapshots exported
    slot_call           \* the call of a slot function made last, what it found,
                        \* returned and raised

gen_vars == << pc, upto_lsn, target_batch_size, start_lsn, gen_last_commit_lsn,
               generated_all, yielded, exc, raised, abandoned >>
server_vars == << conn_open, slot_flush_lsn, in_txn, txn, txn_time >>
consumer_vars == << consumed_all, data_items, last_table_schema, last_table_hashes,
                    last_commit_ts, last_commit_lsn >>
obs_vars == << events, emitted, n_msgs, last_msg, outcome, committed >>
slot_vars == << slot_server, slot_call >>
vars == << gen_vars, server_vars, consumer_vars, obs_vars, slot_vars >>

Event(type, lsn, table) == [type |-> type, lsn |-> lsn, table |-> table]

\* the row the server answers CREATE_REPLICATION_SLOT with, as the dict
\* create_replication_slot makes of it
SlotDescriptor(name, consistent_point, snapshot, plugin) ==
    [slot_name |-> name, consistent_point |-> consistent_point,
     snapshot_name |-> snapshot, output_plugin |-> plugin]
\* no call of a slot function made yet
NoCall == [op |-> "none", n |-> 0]

\* the state after ItemGenerator(...) is constructed and before it is iterated
Init ==
    /\ pc = "new"
    /\ upto_lsn \in 0..MaxUpto
    /\ target_batch_size \in 1..MaxBatchSize
    /\ start_lsn = 0
    /\ gen_last_commit_lsn = None
    /\ generated_all = FALSE
    /\ yielded = 0
    /\ exc = "none"
    /\ raised = "none"
    /\ abandoned = FALSE
    /\ conn_open = FALSE
    /\ slot_flush_lsn = 0
    /\ in_txn = FALSE
    /\ txn = 0
    /\ txn_time = 0
    /\ consumed_all = FALSE
    /\ data_items = Empty
    /\ last_table_schema = Empty
    /\ last_table_hashes = Empty
    /\ last_commit_ts = NoTime
    /\ last_commit_lsn = Unset
    /\ events = <<>>
    /\ emitted = <<>>
    /\ n_msgs = 0
    /\ last_msg = NoMsg
    /\ outcome = "ok"
    /\ committed = Empty
    /\ slot_server = [slots |-> [n \in {slot_name} |-> SlotDescriptor(slot_name, 0, 0, "decoderbufs")],
                      wal |-> 0, snapshots |-> 0]
    /\ slot_call = NoCall

\* ---------------------------------------------------------- MessageConsumer
\* dict[key] = value
Put(dict, key, value) ==
    [k \in DOMAIN dict \cup {key} |-> IF k = key THEN value ELSE dict[k]]

\* self.included_columns.get(table_name); no allow-list reads as the empty set
IncludedFor(table_name) ==
    IF table_name \in DOMAIN included_columns THEN included_columns[table_name] ELSE {}

\* the consumer's fields as one value
Self ==
    [consumed_all |-> consumed_all, data_items |-> data_items,
     last_table_schema |-> last_table_schema, last_table_hashes |-> last_table_hashes,
     last_commit_ts |-> last_commit_ts, last_commit_lsn |-> last_commit_lsn]

\* sum([len(items) for items in self.data_items.values()])
RECURSIVE SumLen(_, _)
SumLen(items, tables) ==
    IF tables = {} THEN 0
    ELSE LET t == CHOOSE x \in tables : TRUE
         IN Len(items[t]) + SumLen(items, tables \ {t})
n_items(items) == SumLen(items, DOMAIN items)

\* process_commit with the raise outside its condition: every COMMIT stops
process_commit_unconditional(self, lsn) ==
    [self EXCEPT !.last_commit_lsn = lsn,
                 !.consumed_all = self.consumed_all \/ lsn >= upto_lsn]
    @@ [outcome |-> "StopReplication"]

\* process_commit with the assignment of last_commit_lsn under the
\* `if lsn >= self.upto_lsn`
process_commit_late_assign(self, lsn) ==
    LET all == self.consumed_all \/ lsn >= upto_lsn
    IN [self EXCEPT !.last_commit_lsn = IF lsn >= upto_lsn THEN lsn ELSE @,
                    !.consumed_all = all]
       @@ [outcome |-> IF all \/ n_items(self.data_items) >= target_batch_size
                       THEN "StopReplication" ELSE "ok"]

\* process_commit comparing with `lsn > self.upto_lsn`
process_commit_strict(self, lsn) ==
    LET all == self.consumed_all \/ lsn > upto_lsn
    IN [self EXCEPT !.last_commit_lsn = lsn, !.consumed_all = all]
       @@ [outcome |-> IF all \/ n_items(self.data_items) >= target_batch_size
                       THEN "StopReplication" ELSE "ok"]

\* process_commit setting consumed_all whenever it stops the batch
process_commit_stop_is_all(self, lsn) ==
    LET stop == self.consumed_all \/ lsn >= upto_lsn
                \/ n_items(self.data_items) >= target_batch_size
    IN [self EXCEPT !.last_commit_lsn = lsn, !.consumed_all = stop]
       @@ [outcome |-> IF stop THEN "StopReplication" ELSE "ok"]

\* process_commit raising only for the size of the buffer
process_commit_size_only(self, lsn) ==
    LET all == self.consumed_all \/ lsn >= upto_lsn
    IN [self EXCEPT !.last_commit_lsn = lsn, !.consumed_all = all]
       @@ [outcome |-> IF n_items(self.data_items) >= target_batch_size
                       THEN "StopReplication" ELSE "ok"]

\* process_commit(lsn): the fields it assigns, and whether it raises
\* StopReplication
process_commit(self, lsn) ==
    LET all == self.consumed_all \/ lsn >= upto_lsn
    IN [self EXCEPT !.last_commit_lsn = lsn, !.consumed_all = all]
       @@ [outcome |-> IF all \/ n_items(self.data_items) >= target_batch_size
                       THEN "StopReplication" ELSE "ok"]

\* get_table_schema assigning the inferred schema and its hash to the caches
\* before it compares the schemas
get_table_schema_assign_first(self, msg, table_name) ==
    LET cached == table_name \in DOMAIN self.last_table_schema
        current_hash == hash_typeinfo(msg.new_typeinfo)
        new_schema == infer_table_schema(msg, IncludedFor(table_name))
        kept == [stop |-> FALSE, schemas |-> self.last_table_schema,
                 hashes |-> self.last_table_hashes]
        assigned == [stop |-> FALSE, schema |-> new_schema,
                     schemas |-> Put(self.last_table_schema, table_name, new_schema),
                     hashes |-> Put(self.last_table_hashes, table_name, current_hash)]
    IN IF msg.op = "DELETE" /\ cached
       THEN kept @@ [schema |-> self.last_table_schema[table_name]]
       ELSE IF table_name \in DOMAIN self.last_table_hashes
               /\ current_hash = self.last_table_hashes[table_name]
       THEN kept @@ [schema |-> self.last_table_schema[table_name]]
       ELSE IF ~cached
       THEN assigned
       ELSE LET retained == compare_schemas(self.last_table_schema[table_name], new_schema)
            IN IF retained.error = "none"
               THEN [stop |-> FALSE, schema |-> new_schema,
                     schemas |-> Put(self.last_table_schema, table_name, retained.schema),
                     hashes |-> self.last_table_hashes]
               ELSE [assigned EXCEPT !.stop = TRUE]

\* get_table_schema without the caching of the schema of a table seen for
\* the first time
get_table_schema_uncached(self, msg, table_name) ==
    LET cached == table_name \in DOMAIN self.last_table_schema
        current_hash == hash_typeinfo(msg.new_typeinfo)
        new_schema == infer_table_schema(msg, IncludedFor(table_name))
        kept == [stop |-> FALSE, schemas |-> self.last_table_schema,
                 hashes |-> self.last_table_hashes]
    IN IF msg.op = "DELETE" /\ cached
       THEN kept @@ [schema |-> self.last_table_schema[table_name]]
       ELSE IF table_name \in DOMAIN self.last_table_hashes
               /\ current_hash = self.last_table_hashes[table_name]
       THEN kept @@ [schema |-> self.last_table_schema[table_name]]
       ELSE IF ~cached
       THEN kept @@ [schema |-> new_schema]
       ELSE LET retained == compare_schemas(self.last_table_schema[table_name], new_schema)
            IN IF retained.error = "none"
               THEN [stop |-> FALSE, schema |-> new_schema,
                     schemas |-> Put(self.last_table_schema, table_name, retained.schema),
                     hashes |-> self.last_table_hashes]
               ELSE [kept EXCEPT !.stop = TRUE] @@ [schema |-> new_schema]

\* get_table_schema returning the schema inferred from the message where the
\* code returns the cached one
get_table_schema_returns_inferred(self, msg, table_name) ==
    LET cached == table_name \in DOMAIN self.last_table_schema
        current_hash == hash_typeinfo(msg.new_typeinfo)
        new_schema == infer_table_schema(msg, IncludedFor(table_name))
        kept == [stop |-> FALSE, schemas |-> self.last_table_schema,
                 hashes |-> self.last_table_hashes]
    IN IF msg.op = "DELETE" /\ cached
       THEN kept @@ [schema |-> new_schema]
       ELSE IF table_name \in DOMAIN self.last_table_hashes
               /\ current_hash = self.last_table_hashes[table_name]
       THEN kept @@ [schema |-> new_schema]
       ELSE IF ~cached
       THEN [stop |-> FALSE, schema |-> new_schema,
             schemas |-> Put(self.last_table_schema, table_name, new_schema),
             hashes |-> Put(self.last_table_hashes, table_name, current_hash)]
       ELSE LET retained == compare_schemas(self.last_table_schema[table_name], new_schema)
            IN IF retained.error = "none"
               THEN [stop |-> FALSE, schema |-> new_schema,
                     schemas |-> Put(self.last_table_schema, table_name, retained.schema),
                     hashes |-> self.last_table_hashes]
               ELSE [kept EXCEPT !.stop = TRUE] @@ [schema |-> new_schema]

\* get_table_schema caching the schema it inferred whenever the fingerprint
\* of the message is not the cached one
get_table_schema_cache_inferred(self, msg, table_name) ==
    LET cached == table_name \in DOMAIN self.last_table_schema
        current_hash == hash_typeinfo(msg.new_typeinfo)
        new_schema == infer_table_schema(msg, IncludedFor(table_name))
        kept == [stop |-> FALSE, schemas |-> self.last_table_schema,
                 hashes |-> self.last_table_hashes]
    IN IF msg.op = "DELETE" /\ cached
       THEN kept @@ [schema |-> self.last_table_schema[table_name]]
       ELSE IF table_name \in DOMAIN self.last_table_hashes
               /\ current_hash = self.last_table_hashes[table_name]
       THEN kept @@ [schema |-> self.last_table_schema[table_name]]
       ELSE [stop |-> FALSE, schema |-> new_schema,
             schemas |-> Put(self.last_table_schema, table_name, new_schema),
             hashes |-> Put(self.last_table_hashes, table_name, current_hash)]

\* get_table_schema(msg, table_name): the schema it returns, the caches it
\* leaves, and whether it raises StopReplication
get_table_schema(self, msg, table_name) ==
    LET cached == table_name \in DOMAIN self.last_table_schema
        current_hash == hash_typeinfo(msg.new_typeinfo)
        new_schema == infer_table_schema(msg, IncludedFor(table_name))
        kept == [stop |-> FALSE, schemas |-> self.last_table_schema,
                 hashes |-> self.last_table_hashes]
    IN IF msg.op = "DELETE" /\ cached
       THEN kept @@ [schema |-> self.last_table_schema[table_name]]
       ELSE IF table_name \in DOMAIN self.last_table_hashes
               /\ current_hash = self.last_table_hashes[table_name]
       THEN kept @@ [schema |-> self.last_table_schema[table_name]]
       ELSE IF ~cached
       THEN [stop |-> FALSE, schema |-> new_schema,
             schemas |-> Put(self.last_table_schema, table_name, new_schema),
             hashes |-> Put(self.last_table_hashes, table_name, current_hash)]
       ELSE LET retained == compare_schemas(self.last_table_schema[table_name], new_schema)
            IN IF retained.error = "none"
               THEN [stop |-> FALSE, schema |-> new_schema,
                     schemas |-> Put(self.last_table_schema, table_name, retained.schema),
                     hashes |-> self.last_table_hashes]
               ELSE [kept EXCEPT !.stop = TRUE] @@ [schema |-> new_schema]

\* the filter applied to the table name instead of the qualified name
Replicated_by_name(table) ==
    TableName(table) \in { TableName(qname) : qname \in table_qnames }

\* `msg.table not in self.table_qnames`
Replicated(table) == table \in table_qnames

\* process_change putting the new item in front of the list of its table
process_change_prepend(self, msg, lsn) ==
    IF ~Replicated(msg.table) THEN self @@ [outcome |-> "ok"]
    ELSE LET table_name == TableName(msg.table)
             found == get_table_schema(self, msg, table_name)
             cachedSelf == [self EXCEPT !.last_table_schema = found.schemas,
                                        !.last_table_hashes = found.hashes]
             made == gen_data_item(msg, found.schema.columns, IncludedFor(table_name))
             data_item == [lsn |-> lsn,
                           src |-> [op |-> msg.op, table |-> msg.table, txn |-> txn,
                                    seq |-> n_msgs + 1, ts |-> self.last_commit_ts]]
                          @@ made.item
             items == IF table_name \in DOMAIN self.data_items
                      THEN self.data_items[table_name] ELSE <<>>
         IN IF found.stop THEN cachedSelf @@ [outcome |-> "StopReplication"]
            ELSE IF made.error # "none" THEN cachedSelf @@ [outcome |-> "KeyError"]
            ELSE [cachedSelf EXCEPT !.data_items =
                      Put(self.data_items, table_name, << data_item >> \o items)]
                 @@ [outcome |-> "ok"]

\* process_change(msg, lsn); every buffered item carries, beside what the code
\* puts in it, the message it was made from (src: operation, qualified table,
\* transaction, place in the stream) and the last_commit_ts the consumer held
\* when it was made (ts)
process_change(self, msg, lsn) ==
    IF ~Replicated(msg.table) THEN self @@ [outcome |-> "ok"]
    ELSE LET table_name == TableName(msg.table)
             found == get_table_schema(self, msg, table_name)
             cachedSelf == [self EXCEPT !.last_table_schema = found.schemas,
                                        !.last_table_hashes = found.hashes]
             made == gen_data_item(msg, found.schema.columns, IncludedFor(table_name))
             data_item == [lsn |-> lsn,
                           src |-> [op |-> msg.op, table |-> msg.table, txn |-> txn,
                                    seq |-> n_msgs + 1, ts |-> self.last_commit_ts]]
                          @@ made.item
             items == IF table_name \in DOMAIN self.data_items
                      THEN self.data_items[table_name] ELSE <<>>
         IN IF found.stop THEN cachedSelf @@ [outcome |-> "StopReplication"]
            ELSE IF made.error # "none" THEN cachedSelf @@ [outcome |-> "KeyError"]
            ELSE [cachedSelf EXCEPT !.data_items =
                      Put(self.data_items, table_name, Append(items, data_item))]
                 @@ [outcome |-> "ok"]

\* process_msg(msg): the consumer's fields after the call and how it ended
process_msg(self, msg) ==
    CASE msg.op = "UNKNOWN" -> self @@ [outcome |-> "AssertionError"]
      [] msg.op = "BEGIN" ->
            [self EXCEPT !.last_commit_ts = _epoch_micros_to_datetime(msg.commit_time)]
            @@ [outcome |-> "ok"]
      [] msg.op = "COMMIT" -> process_commit(self, msg.data_start)
      [] OTHER -> process_change(self, msg, msg.data_start)

\* -------------------------------------------------------------- the stream
\* the messages the server may send next: transactions are BEGIN, changes,
\* COMMIT; data_start grows with every message; every message of a
\* transaction carries its commit time, and the commit times grow with the
\* transactions; a message whose operation the consumer does not know may
\* come at any point
NextMsgs ==
    LET lsn == start_lsn + n_msgs + 1
    IN { RowMessage("UNKNOWN", NoTable, 0, <<>>, <<>>, <<>>, lsn) }
       \cup (IF in_txn
             THEN { RowMessage("COMMIT", NoTable, txn_time, <<>>, <<>>, <<>>, lsn) }
                  \cup ChangeMsgs(txn_time, lsn)
             ELSE { RowMessage("BEGIN", NoTable, txn + 1, <<>>, <<>>, <<>>, lsn) })

\* ------------------------------------------------------------ ItemGenerator
\* __iter__ up to the try: the connection is opened, replication started and
\* a new consumer made
StartBatch ==
    /\ pc = "new"
    /\ pc' = "stream"
    /\ conn_open' = TRUE
    /\ consumed_all' = FALSE
    /\ data_items' = Empty
    /\ last_table_schema' = Empty
    /\ last_table_hashes' = Empty
    /\ last_commit_ts' = NoTime
    /\ last_commit_lsn' = Unset
    /\ UNCHANGED << upto_lsn, target_batch_size, start_lsn, gen_last_commit_lsn,
                    generated_all, yielded, exc, raised, abandoned >>
    /\ UNCHANGED << slot_flush_lsn, in_txn, txn, txn_time >>
    /\ UNCHANGED obs_vars
    /\ UNCHANGED slot_vars

\* cur.consume_stream(consumer), one message: the driver reads it and calls
\* the consumer; an exception of the consumer ends the loop
consume_stream ==
    /\ pc = "stream"
    /\ n_msgs < MaxMsgs
    /\ \E msg \in NextMsgs :
          LET after == process_msg(Self, msg)
          IN /\ consumed_all' = after.consumed_all
             /\ data_items' = after.data_items
             /\ last_table_schema' = after.last_table_schema
             /\ last_table_hashes' = after.last_table_hashes
             /\ last_commit_ts' = after.last_commit_ts
             /\ last_commit_lsn' = after.last_commit_lsn
             /\ outcome' = after.outcome
             /\ last_msg' = msg
             /\ n_msgs' = n_msgs + 1
             /\ exc' = IF after.outcome = "ok" THEN "none" ELSE after.outcome
             /\ pc' = IF after.outcome = "ok" THEN "stream" ELSE "finally"
             /\ in_txn' = (IF msg.op = "BEGIN" THEN TRUE
                           ELSE IF msg.op = "COMMIT" THEN FALSE ELSE in_txn)
             /\ txn' = IF msg.op = "BEGIN" THEN txn + 1 ELSE txn
             /\ txn_time' = IF msg.op = "BEGIN" THEN msg.commit_time ELSE txn_time
             /\ committed' = IF msg.op = "COMMIT" THEN Put(committed, txn, msg.data_start)
                                                  ELSE committed
    /\ UNCHANGED << upto_lsn, target_batch_size, start_lsn, gen_last_commit_lsn,
                    generated_all, yielded, raised, abandoned >>
    /\ UNCHANGED << conn_open, slot_flush_lsn, events, emitted >>
    /\ UNCHANGED slot_vars

\* consume_stream ends with an exception that is not the consumer's: the
\* caller's cancellation or an error of the driver, raised in the read
Cancel ==
    /\ pc = "stream"
    /\ pc' = "finally"
    /\ exc' = "Cancel"
    /\ UNCHANGED << upto_lsn, target_batch_size, start_lsn, gen_last_commit_lsn,
                    generated_all, yielded, raised, abandoned >>
    /\ UNCHANGED server_vars
    /\ UNCHANGED consumer_vars
    /\ UNCHANGED obs_vars
    /\ UNCHANGED slot_vars

\* the attribute as if __init__ had given it a value
HasLastCommitLsn_initialised(self) == TRUE

\* `last_commit_lsn = consumer.last_commit_lsn`: the attribute exists once
\* process_commit has assigned it, and reading it before raises AttributeError
HasLastCommitLsn(self) == self.last_commit_lsn # Unset

\* both acknowledgements sent before the groups are yielded
BeforeYield_flush_early(lsn) ==
    << Event("write_ack", lsn, ""), Event("flush_ack", lsn, "") >>

\* the statements of the finally block before its for loop
BeforeYield(lsn) == << Event("write_ack", lsn, "") >>

\* the finally block without its flush acknowledgement
AfterYield_no_flush(lsn) == << Event("record", lsn, ""), Event("close", lsn, "") >>

\* the statements of the finally block after its for loop
AfterYield(lsn) ==
    << Event("record", lsn, ""), Event("flush_ack", lsn, ""), Event("close", lsn, "") >>

\* consumer.data_items.items(): the tables in the order of their first append
\* (a dict keeps insertion order, and data_start grows along the stream)
GroupOrder(items) ==
    LET n == Cardinality(DOMAIN items)
    IN CHOOSE order \in [1..n -> DOMAIN items] :
          \A i, j \in 1..n : i < j => items[order[i]][1].lsn < items[order[j]][1].lsn

NoSchema == [name |-> "", columns |-> <<>>]

\* TableItems(table, consumer.last_table_schema.get(table), data_items)
TableItems(self, table) ==
    [table |-> table,
     schema |-> IF table \in DOMAIN self.last_table_schema
                THEN self.last_table_schema[table] ELSE NoSchema,
     items |-> self.data_items[table]]

Has(evs, type) == \E i \in 1..Len(evs) : evs[i].type = type
LastOf(evs, type) ==
    evs[CHOOSE i \in 1..Len(evs) :
            evs[i].type = type /\ \A j \in 1..Len(evs) : evs[j].type = type => j <= i]

\* what the statements `ran` of the finally block do to the generator, the
\* server and the connection
Effects(ran) ==
    /\ events' = events \o ran
    /\ gen_last_commit_lsn' = IF Has(ran, "record") THEN LastOf(ran, "record").lsn
                              ELSE gen_last_commit_lsn
    /\ generated_all' = IF Has(ran, "record") THEN consumed_all ELSE generated_all
    /\ slot_flush_lsn' = IF Has(ran, "flush_ack") THEN LastOf(ran, "flush_ack").lsn
                         ELSE slot_flush_lsn
    /\ conn_open' = (conn_open /\ ~Has(ran, "close"))

\* `except Exception: pass`: every exception of the stream is swallowed
Reraised_swallowed(ended_by) == "none"

\* `except StopReplication: pass` and the end of the finally block: the
\* exception that ended the stream is raised again unless it was caught
Reraised(ended_by) ==
    IF ended_by \in {"none", "StopReplication"} THEN "none" ELSE ended_by

\* the finally block from the statements `ran` on, `k` groups being yielded
\* already: it runs to its next yield, or to its end, where the exception
\* that ended the stream (if not StopReplication) is raised again
RunFinally(ran, k) ==
    LET order == GroupOrder(data_items)
    IN IF k < Len(order)
       THEN /\ Effects(Append(ran, Event("group", last_commit_lsn, order[k + 1])))
            /\ emitted' = Append(emitted, TableItems(Self, order[k + 1]))
            /\ yielded' = k + 1
            /\ pc' = "yield"
            /\ raised' = raised
       ELSE /\ Effects(ran \o AfterYield(last_commit_lsn))
            /\ emitted' = emitted
            /\ yielded' = k
            /\ pc' = "done"
            /\ raised' = Reraised(exc)

\* the finally block is entered
Finally ==
    /\ pc = "finally"
    /\ IF HasLastCommitLsn(Self)
       THEN RunFinally(BeforeYield(last_commit_lsn), 0)
       ELSE /\ pc' = "done"
            /\ raised' = "AttributeError"
            /\ UNCHANGED << gen_last_commit_lsn, generated_all, yielded, conn_open,
                            slot_flush_lsn, events, emitted >>
    /\ UNCHANGED << upto_lsn, target_batch_size, start_lsn, exc, abandoned >>
    /\ UNCHANGED << in_txn, txn, txn_time, n_msgs, last_msg, outcome, committed >>
    /\ UNCHANGED consumer_vars
    /\ UNCHANGED slot_vars

\* the caller asks for the next group
Resume ==
    /\ pc = "yield"
    /\ RunFinally(<<>>, yielded)
    /\ UNCHANGED << upto_lsn, target_batch_size, start_lsn, exc, abandoned >>
    /\ UNCHANGED << in_txn, txn, txn_time, n_msgs, last_msg, outcome, committed >>
    /\ UNCHANGED consumer_vars
    /\ UNCHANGED slot_vars

\* the caller drops the generator while it is suspended at a yield:
\* GeneratorExit is raised at the yield, inside the finally block, and the
\* statements after it do not run
Abandon ==
    /\ pc = "yield"
    /\ pc' = "done"
    /\ abandoned' = TRUE
    /\ UNCHANGED << upto_lsn, target_batch_size, start_lsn, gen_last_commit_lsn,
                    generated_all, yielded, exc, raised >>
    /\ UNCHANGED server_vars
    /\ UNCHANGED consumer_vars
    /\ UNCHANGED obs_vars
    /\ UNCHANGED slot_vars

Next ==
    \/ StartBatch
    \/ consume_stream
    \/ Cancel
    \/ Finally
    \/ Resume
    \/ Abandon

Spec == Init /\ [][Next]_vars

\* ------------------------------------------------------ consecutive batches
\* the caller iterates the generator again: __iter__ runs anew, with a new
\* connection and a new MessageConsumer. The caller does so after a batch
\* that ended without an error at a COMMIT below upto_lsn; the server then
\* goes on with the message after that COMMIT
Reiterate ==
    /\ pc = "done"
    /\ raised = "none"
    /\ ~abandoned
    /\ ~in_txn
    /\ ~generated_all
    /\ pc' = "stream"
    /\ conn_open' = TRUE
    /\ consumed_all' = FALSE
    /\ data_items' = Empty
    /\ last_table_schema' = Empty
    /\ last_table_hashes' = Empty
    /\ last_commit_ts' = NoTime
    /\ last_commit_lsn' = Unset
    /\ yielded' = 0
    /\ exc' = "none"
    /\ UNCHANGED << upto_lsn, target_batch_size, start_lsn, gen_last_commit_lsn,
                    generated_all, raised, abandoned >>
    /\ UNCHANGED << slot_flush_lsn, in_txn, txn, txn_time >>
    /\ UNCHANGED obs_vars
    /\ UNCHANGED slot_vars

BatchesNext ==
    \/ Next
    \/ Reiterate

BatchesSpec == Init /\ [][BatchesNext]_vars

\* ------------------------------------------------------------ one batch, run
\* the batch with the progress its control flow guarantees: once
\* consume_stream has ended, __iter__ goes on into its finally block in the
\* same thread, and the caller iterating the generator asks for the next
\* group until it is exhausted (or drops it, Abandon). Nothing makes the
\* server send a message, so consume_stream has no such condition
LiveSpec == Init /\ [][Next]_vars /\ WF_vars(Finally) /\ WF_vars(Resume)

\* ------------------------------------------------------- replication slots
NoDescriptor == SlotDescriptor("", 0, 0, "")

\* cur.create_replication_slot(name, output_plugin=...) and cur.fetchone():
\* the server refuses with DuplicateObject when it has a slot of the name,
\* and else makes the slot at its write-ahead position, exports a snapshot
\* and answers with the row of the slot
cur_create_replication_slot(server, name, output_plugin) ==
    IF name \in DOMAIN server.slots
    THEN [error |-> "DuplicateObject", server |-> server, row |-> NoDescriptor]
    ELSE LET row == SlotDescriptor(name, server.wal, server.snapshots + 1, output_plugin)
         IN [error |-> "none",
             server |-> [server EXCEPT !.slots = Put(@, name, row),
                                       !.snapshots = @ + 1],
             row |-> row]

\* cur.drop_replication_slot(name): the server refuses with UndefinedObject
\* when it has no slot of the name
cur_drop_replication_slot(server, name) ==
    IF name \notin DOMAIN server.slots
    THEN [error |-> "UndefinedObject", server |-> server]
    ELSE [error |-> "none",
          server |-> [server EXCEPT !.slots = [n \in DOMAIN @ \ {name} |-> @[n]]]]

\* create_replication_slot without its except clause
create_replication_slot_reraise(name, server) ==
    LET done == cur_create_replication_slot(server, name, "decoderbufs")
    IN [raised |-> done.error,
        returned |-> IF done.error = "none" THEN "descriptor" ELSE "null",
        slot |-> done.row, server |-> done.server]

\* create_replication_slot(name, cur): what it raises, whether it returns the
\* dict of the slot or None, and the server after it
create_replication_slot(name, server) ==
    LET done == cur_create_replication_slot(server, name, "decoderbufs")
    IN [raised |-> IF done.error = "DuplicateObject" THEN "none" ELSE done.error,
        returned |-> IF done.error = "none" THEN "descriptor" ELSE "null",
        slot |-> done.row, server |-> done.server]

\* drop_replication_slot(name, cur)
drop_replication_slot(name, server) ==
    LET done == cur_drop_replication_slot(server, name)
    IN [raised |-> IF done.error = "UndefinedObject" THEN "none" ELSE done.error,
        server |-> done.server]

\* init_replication(slot_name, ..., take_snapshots, reset): the slot it got
\* from create_replication_slot, the transaction its snapshot reader would
\* set up (on_begin), and whether it left its replication connection open
init_replication(name, take_snapshots, reset, server) ==
    LET dropped == IF reset THEN drop_replication_slot(name, server)
                            ELSE [raised |-> "none", server |-> server]
        created == create_replication_slot(name, dropped.server)
    IN IF dropped.raised # "none"
       THEN [raised |-> dropped.raised, returned |-> "null", slot |-> NoDescriptor,
             server |-> dropped.server, isolation |-> "none", rep_conn_open |-> TRUE]
       ELSE created @@
            [isolation |-> IF ~take_snapshots THEN "none"
                           ELSE IF created.returned = "null" THEN "SERIALIZABLE"
                           ELSE "REPEATABLE READ",
             rep_conn_open |-> (created.raised # "none" \/ take_snapshots)]

\* the record of a call
Called(op, name, take_snapshots, reset, result) ==
    [op |-> op, n |-> slot_call.n + 1, name |-> name,
     take_snapshots |-> take_snapshots, reset |-> reset,
     before |-> slot_server.slots, raised |-> result.raised,
     returned |-> result.returned, slot |-> result.slot]

CallCreate ==
    /\ slot_call.n < MaxSlotCalls
    /\ \E name \in slot_names :
          LET result == create_replication_slot(name, slot_server)
          IN /\ slot_server' = result.server
             /\ slot_call' = Called("create", name, FALSE, FALSE, result)
    /\ UNCHANGED << gen_vars, server_vars, consumer_vars, obs_vars >>

CallDrop ==
    /\ slot_call.n < MaxSlotCalls
    /\ \E name \in slot_names :
          LET result == drop_replication_slot(name, slot_server)
          IN /\ slot_server' = result.server
             /\ slot_call' = Called("drop", name, FALSE, FALSE,
                                    result @@ [returned |-> "null", slot |-> NoDescriptor])
    /\ UNCHANGED << gen_vars, server_vars, consumer_vars, obs_vars >>

CallInit ==
    /\ slot_call.n < MaxSlotCalls
    /\ \E name \in slot_names, take_snapshots \in BOOLEAN, reset \in BOOLEAN :
          LET result == init_replication(name, take_snapshots, reset, slot_server)
          IN /\ slot_server' = result.server
             /\ slot_call' = Called("init", name, take_snapshots, reset, result)
                              @@ [isolation |-> result.isolation]
    /\ UNCHANGED << gen_vars, server_vars, consumer_vars, obs_vars >>

\* other sessions of the server write: the write-ahead position grows
ServerWrites ==
    /\ slot_server.wal < MaxWal
    /\ slot_server' = [slot_server EXCEPT !.wal = @ + 1]
    /\ UNCHANGED slot_call
    /\ UNCHANGED << gen_vars, server_vars, consumer_vars, obs_vars >>

\* the slot functions are called while no batch runs
SlotInit == Init /\ upto_lsn = 0 /\ target_batch_size = 1

SlotNext ==
    \/ CallCreate
    \/ CallDrop
    \/ CallInit
    \/ ServerWrites

SlotSpec == SlotInit /\ [][SlotNext]_vars

\* ------------------------------------------------------------------ claims
Changes == {"INSERT", "UPDATE", "DELETE"}
Acked == Has(events, "write_ack") \/ Has(events, "flush_ack")
\* the items of the groups handed to the caller
EmittedItems ==
    UNION { { emitted[g].items[i] : i \in 1..Len(emitted[g].items) } : g \in 1..Len(emitted) }
\* the data_start of the COMMIT processed last
LastCommitSeen ==
    committed[CHOOSE x \in DOMAIN committed : \A y \in DOMAIN committed : y <= x]

\* C1 as stated: StopReplication is raised only while a COMMIT is processed,
\* and then the buffered rows are >= target_batch_size or last_commit_lsn >=
\* upto_lsn
C1_StopOnlyAtCommit ==
    outcome = "StopReplication" =>
        /\ last_msg.op = "COMMIT"
        /\ \/ n_items(data_items) >= target_batch_size
           \/ last_commit_lsn >= upto_lsn

\* the schema inferred from the last message is rejected by compare_schemas
\* against the schema cached for its table
SchemaRejected ==
    /\ Replicated(last_msg.table)
    /\ TableName(last_msg.table) \in DOMAIN last_table_schema
    /\ compare_schemas(last_table_schema[TableName(last_msg.table)],
                       infer_table_schema(last_msg, IncludedFor(TableName(last_msg.table)))
                      ).error # "none"

\* C1 amended: StopReplication is raised only while a COMMIT is processed,
\* with the buffered rows >= target_batch_size or last_commit_lsn >= upto_lsn,
\* or while an INSERT or UPDATE is processed whose inferred schema
\* compare_schemas rejects; never while a BEGIN or a DELETE is processed
C1_StopAtCommitOrSchemaChange ==
    outcome = "StopReplication" =>
        \/ /\ last_msg.op = "COMMIT"
           /\ \/ n_items(data_items) >= target_batch_size
              \/ last_commit_lsn >= upto_lsn
        \/ /\ last_msg.op \in {"INSERT", "UPDATE"}
           /\ SchemaRejected

\* a COMMIT below upto_lsn stopped the batch because the target was reached
C1_Witness ==
    /\ outcome = "StopReplication"
    /\ last_msg.op = "COMMIT"
    /\ last_commit_lsn < upto_lsn
    /\ n_items(data_items) >= target_batch_size

\* C2 as stated: every emitted row has lsn <= last_commit_lsn and belongs to
\* a transaction whose COMMIT the consumer processed in the batch
C2_CommitAtomicity ==
    \A item \in EmittedItems :
        /\ item.lsn <= last_commit_lsn
        /\ item.src.txn \in DOMAIN committed

\* C3: a batch in which no COMMIT was processed sends no write or flush
\* acknowledgement, emits no group and leaves the slot where it was
C3_NoCommitNoAck ==
    committed = Empty =>
        /\ ~Acked
        /\ emitted = <<>>
        /\ slot_flush_lsn = start_lsn
        /\ gen_last_commit_lsn = None

\* a batch that buffered rows ended before any COMMIT
C3_Witness ==
    /\ pc = "done"
    /\ committed = Empty
    /\ data_items # Empty

Fatal == outcome \notin {"ok", "StopReplication"}

C6_ConnectionClosed == pc = "done" => ~conn_open

\* the place of a statement of the finally block in the order of C7
Rank(type) ==
    CASE type = "write_ack" -> 1
      [] type = "group" -> 2
      [] type = "record" -> 3
      [] type = "flush_ack" -> 4
      [] OTHER -> 5
Count(evs, type) == Cardinality({ i \in 1..Len(evs) : evs[i].type = type })

C8_TableFilter ==
    /\ \A t \in DOMAIN data_items : \A i \in 1..Len(data_items[t]) :
          data_items[t][i].src.table \in table_qnames
    /\ \A item \in EmittedItems : item.src.table \in table_qnames

\* a change of a table outside table_qnames, whose name a replicated table
\* shares, was processed after rows of that table were buffered
C8_Witness ==
    /\ last_msg.op = "INSERT"
    /\ last_msg.table \notin table_qnames
    /\ outcome = "ok"
    /\ TableName(last_msg.table) \in DOMAIN data_items

\* C9: while the stream is consumed, last_commit_lsn changes only in a step
\* that processes a COMMIT, and after such a step it is the COMMIT's
\* data_start
C9_LsnOnlyOnCommit ==
    [][ pc = "stream" =>
          /\ last_commit_lsn' # last_commit_lsn
                => (n_msgs' = n_msgs + 1 /\ last_msg'.op = "COMMIT")
          /\ (n_msgs' = n_msgs + 1 /\ last_msg'.op = "COMMIT")
                => last_commit_lsn' = last_msg'.data_start
          /\ (n_msgs' = n_msgs + 1 /\ last_msg'.op # "COMMIT")
                => last_commit_lsn' = last_commit_lsn ]_vars

\* a change was processed after a COMMIT and left last_commit_lsn at the
\* COMMIT's data_start
C9_Witness ==
    /\ last_msg.op \in Changes
    /\ committed # Empty
    /\ last_commit_lsn = LastCommitSeen
    /\ last_commit_lsn < last_msg.data_start

\* C10: the step that processes the COMMIT whose data_start is upto_lsn
\* raises StopReplication with consumed_all set and last_commit_lsn =
\* upto_lsn, no message is processed after it, and the batch ends (the caller
\* iterating to the end) with generated_all = TRUE and the generator's
\* last_commit_lsn = upto_lsn
C10_UptoCutoff ==
    (last_msg.op = "COMMIT" /\ last_msg.data_start = upto_lsn) =>
        /\ outcome = "StopReplication"
        /\ consumed_all
        /\ last_commit_lsn = upto_lsn
        /\ pc \in {"finally", "yield", "done"}
        /\ (pc = "done" /\ ~abandoned) =>
              (generated_all /\ gen_last_commit_lsn = upto_lsn)

\* the batch passed a COMMIT below upto_lsn and ended at the COMMIT at
\* upto_lsn
C10_Witness ==
    /\ pc = "done"
    /\ last_msg.op = "COMMIT"
    /\ last_msg.data_start = upto_lsn
    /\ Cardinality(DOMAIN committed) = 2
    /\ generated_all
    /\ gen_last_commit_lsn = upto_lsn

\* the buffered items, of every table
BufferedItems ==
    UNION { { data_items[t][i] : i \in 1..Len(data_items[t]) } : t \in DOMAIN data_items }

\* C11: the step that processes a COMMIT below upto_lsn with the buffered rows
\* at or above target_batch_size stops the batch there: it raises
\* StopReplication with last_commit_lsn the COMMIT's data_start and
\* consumed_all unset, no message is processed after it, every buffered row
\* is of a committed transaction, and the batch ends (the caller iterating to
\* the end) having emitted exactly the buffered rows, with generated_all =
\* FALSE and the generator's last_commit_lsn that COMMIT's data_start
C11_BatchSizeCutoff ==
    (/\ last_msg.op = "COMMIT"
     /\ last_msg.data_start < upto_lsn
     /\ n_items(data_items) >= target_batch_size) =>
        /\ outcome = "StopReplication"
        /\ ~consumed_all
        /\ last_commit_lsn = last_msg.data_start
        /\ pc \in {"finally", "yield", "done"}
        /\ \A item \in BufferedItems :
              item.src.txn \in DOMAIN committed /\ item.lsn < last_commit_lsn
        /\ EmittedItems \subseteq BufferedItems
        /\ (pc = "done" /\ ~abandoned) =>
              /\ EmittedItems = BufferedItems
              /\ Cardinality(EmittedItems) = n_items(data_items)
              /\ ~generated_all
              /\ gen_last_commit_lsn = last_msg.data_start

\* target_batch_size = 2 and a transaction of two rows: the batch ended at
\* its COMMIT, below upto_lsn, with the two rows emitted
C11_Witness ==
    /\ pc = "done"
    /\ ~abandoned
    /\ target_batch_size = 2
    /\ last_msg.op = "COMMIT"
    /\ last_msg.data_start < upto_lsn
    /\ Cardinality(EmittedItems) = 2
    /\ ~generated_all
    /\ gen_last_commit_lsn = 4

\* the schema inferred from the last message gives a column of the schema
\* cached for its table another data_type
DataTypeChanged ==
    LET t == TableName(last_msg.table)
        new == infer_table_schema(last_msg, IncludedFor(t))
    IN /\ Replicated(last_msg.table)
       /\ t \in DOMAIN last_table_schema
       /\ \E i \in 1..Len(last_table_schema[t].columns), j \in 1..Len(new.columns) :
             /\ last_table_schema[t].columns[i].name = new.columns[j].name
             /\ last_table_schema[t].columns[i].data_type # new.columns[j].data_type

\* C12 as stated: an INSERT or UPDATE whose inferred schema changes the
\* data_type of a cached column, a COMMIT being processed before it, raises
\* StopReplication, and the batch ends (the caller iterating to the end)
\* without an error, having emitted only rows of transactions committed
\* before, none of the transaction of the offending message, and with the
\* generator's last_commit_lsn the data_start of the last COMMIT
C12_SchemaChangeStop ==
    (/\ last_msg.op \in {"INSERT", "UPDATE"}
     /\ DataTypeChanged
     /\ committed # Empty) =>
        /\ outcome = "StopReplication"
        /\ (pc = "done" /\ ~abandoned) =>
              /\ raised = "none"
              /\ gen_last_commit_lsn = LastCommitSeen
              /\ \A item \in EmittedItems :
                    /\ item.src.txn \in DOMAIN committed
                    /\ item.src.txn # txn
                    /\ item.lsn <= LastCommitSeen

\* the last message is an INSERT or UPDATE whose typeinfo is not the cached
\* one and whose inferred schema compare_schemas rejects for a column that
\* carries a field outside ALLOWED_COL_SCHEMA_FIELDS
UnexpectedField ==
    LET t == TableName(last_msg.table)
    IN /\ last_msg.op \in {"INSERT", "UPDATE"}
       /\ Replicated(last_msg.table)
       /\ t \in DOMAIN last_table_schema
       /\ hash_typeinfo(last_msg.new_typeinfo) # last_table_hashes[t]
       /\ compare_schemas(last_table_schema[t],
                          infer_table_schema(last_msg, IncludedFor(t))).error = "unexpected"

\* C13 as stated: when compare_schemas finds a field outside {name,
\* data_type, nullable, precision, scale} in a column of the newly inferred
\* schema, handling the message ends with an error that is not
\* StopReplication, and the error reaches the caller of the batch
C13_UnexpectedFieldFatal ==
    UnexpectedField =>
        /\ Fatal
        /\ pc = "done" => raised # "none"

\* C14 as stated: when the generator is iterated again, the consumer of the
\* new batch starts with the last_table_schema and last_table_hashes the
\* consumer of the batch before ended with
C14_CachesSurvive ==
    [][ (pc = "done" /\ pc' = "stream") =>
            /\ last_table_schema' = last_table_schema
            /\ last_table_hashes' = last_table_hashes ]_vars

\* C15 as stated: a batch with upto_lsn = 0 to which the stream delivered no
\* message ends having emitted no group and sent no acknowledgement, with
\* its connection closed and no exception reaching the caller
C15_EmptySlotClean ==
    (pc = "done" /\ upto_lsn = 0 /\ n_msgs = 0) =>
        /\ emitted = <<>>
        /\ ~Acked
        /\ ~conn_open
        /\ raised = "none"

\* the schema has a nullable column of this name and data type
HasNullableColumn(schema, name, data_type) ==
    \E i \in 1..Len(schema.columns) :
        /\ schema.columns[i].name = name
        /\ schema.columns[i].data_type = data_type
        /\ "nullable" \in DOMAIN schema.columns[i]
        /\ schema.columns[i].nullable

\* C16: every schema handed to the caller in a group, and every schema the
\* consumer caches, inferred from a message or returned by compare_schemas,
\* has the columns lsn (bigint, nullable) and deleted_ts (timestamp,
\* nullable)
C16_ReplicationColumns ==
    /\ \A g \in 1..Len(emitted) :
          /\ HasNullableColumn(emitted[g].schema, "lsn", "bigint")
          /\ HasNullableColumn(emitted[g].schema, "deleted_ts", "timestamp")
    /\ \A t \in DOMAIN last_table_schema :
          /\ HasNullableColumn(last_table_schema[t], "lsn", "bigint")
          /\ HasNullableColumn(last_table_schema[t], "deleted_ts", "timestamp")

\* a group was emitted whose schema compare_schemas returned: the table was
\* cached from a DELETE without old tuple and an INSERT of it came after
C16_Witness ==
    \E g \in 1..Len(emitted) :
        /\ Len(emitted[g].schema.columns) = 2
        /\ \E i \in 1..Len(emitted[g].items) : emitted[g].items[i].src.op = "INSERT"

HasValue(item, name) ==
    \E k \in 1..Len(item.vals) : item.vals[k].name = name /\ item.vals[k].val.kind # "null"

\* C18 as stated: in every emitted group, every item of a DELETE has a value
\* that is not null for every column the group's schema declares not
\* nullable, whether the DELETE's old_tuple carried the column or not
C18_DeleteNonNull ==
    \A g \in 1..Len(emitted) : \A i \in 1..Len(emitted[g].items) :
        emitted[g].items[i].src.op = "DELETE" =>
            \A c \in 1..Len(emitted[g].schema.columns) :
                LET col == emitted[g].schema.columns[c]
                IN ("nullable" \in DOMAIN col /\ ~col.nullable)
                      => HasValue(emitted[g].items[i], col.name)

\* C19: the items buffered for a table are in the order in which their
\* messages arrived, the item of the change processed last is the last of its
\* table, every item has as lsn the data_start of the message it was made
\* from, and the items of an emitted group are the items buffered for its
\* table, in the same order
C19_ArrivalOrder ==
    /\ \A t \in DOMAIN data_items : \A i, j \in 1..Len(data_items[t]) :
          i < j => /\ data_items[t][i].src.seq < data_items[t][j].src.seq
                   /\ data_items[t][i].lsn <= data_items[t][j].lsn
    /\ \A t \in DOMAIN data_items : \A i \in 1..Len(data_items[t]) :
          /\ TableName(data_items[t][i].src.table) = t
          /\ data_items[t][i].lsn = start_lsn + data_items[t][i].src.seq
    /\ (last_msg.op \in Changes /\ Replicated(last_msg.table) /\ outcome = "ok") =>
          LET items == data_items[TableName(last_msg.table)]
          IN /\ items[Len(items)].src.seq = n_msgs
             /\ items[Len(items)].lsn = last_msg.data_start
    /\ \A g \in 1..Len(emitted) : emitted[g].items = data_items[emitted[g].table]

\* the changes of two tables arrived interleaved and were emitted, the group
\* of the first table with its two rows in the order of arrival
C19_Witness ==
    /\ Len(emitted) = 2
    /\ Len(emitted[1].items) = 2
    /\ emitted[1].items[1].lsn < emitted[2].items[1].lsn
    /\ emitted[2].items[1].lsn < emitted[1].items[2].lsn

\* the slots other than the one the last call named are as they were
OtherSlotsUntouched ==
    \A n \in slot_names \ {slot_call.name} :
        /\ n \in DOMAIN slot_server.slots <=> n \in DOMAIN slot_call.before
        /\ n \in DOMAIN slot_call.before => slot_server.slots[n] = slot_call.before[n]

\* C20: no call of create_replication_slot, drop_replication_slot or
\* init_replication raises. create returns the descriptor of the slot it made
\* exactly when no slot of the name existed, and None when one did, which it
\* leaves as it was; after create the slot exists. After drop the slot does
\* not exist, and a drop of a missing slot changes nothing. init_replication
\* leaves the slot existing whatever existed before: without reset it keeps
\* an existing slot, with reset it drops it and makes a new one
C20_SlotIdempotence ==
    slot_call.op # "none" =>
        LET name == slot_call.name
            existed == name \in DOMAIN slot_call.before
            exists == name \in DOMAIN slot_server.slots
        IN /\ slot_call.raised = "none"
           /\ OtherSlotsUntouched
           /\ slot_call.op = "create" =>
                 /\ exists
                 /\ slot_call.returned = "descriptor" <=> ~existed
                 /\ slot_call.returned = "null" <=> existed
                 /\ existed => slot_server.slots[name] = slot_call.before[name]
                 /\ ~existed => /\ slot_call.slot = slot_server.slots[name]
                                /\ slot_call.slot.slot_name = name
           /\ slot_call.op = "drop" =>
                 /\ ~exists
                 /\ ~existed => slot_server.slots = slot_call.before
           /\ slot_call.op = "init" =>
                 /\ exists
                 /\ (existed /\ ~slot_call.reset) =>
                       /\ slot_call.returned = "null"
                       /\ slot_server.slots[name] = slot_call.before[name]
                 /\ (~existed \/ slot_call.reset) =>
                       /\ slot_call.returned = "descriptor"
                       /\ slot_call.slot = slot_server.slots[name]
                       /\ existed => slot_server.slots[name] # slot_call.before[name]

\* init_replication was called a second time for a slot, with reset, and
\* replaced the slot the call before had left
C20_Witness ==
    /\ slot_call.op = "init"
    /\ slot_call.n >= 2
    /\ slot_call.reset
    /\ slot_call.name \in DOMAIN slot_call.before
    /\ slot_call.raised = "none"
    /\ slot_server.slots[slot_call.name] # slot_call.before[slot_call.name]

\* C21 as stated: when an INSERT or UPDATE of a replicated table has been
\* processed, the schema cached for the table was produced from a message
\* with that message's new_typeinfo (cached or reconciled from it just now,
\* or found under an equal fingerprint), so last_table_hashes of the table
\* is the fingerprint of that new_typeinfo
C21_HashOfCachedSchema ==
    (/\ last_msg.op \in {"INSERT", "UPDATE"}
     /\ Replicated(last_msg.table)
     /\ outcome = "ok") =>
        /\ TableName(last_msg.table) \in DOMAIN last_table_hashes
        /\ last_table_hashes[TableName(last_msg.table)]
              = hash_typeinfo(last_msg.new_typeinfo)

\* the columns of schema `earlier` and of schema `later` are the same, with
\* the same data types, and differ in nothing but a precision or a scale that
\* only `earlier` has, in one column at least
Without(col, keys) == [k \in DOMAIN col \ keys |-> col[k]]
MorePreciseThan(earlier, later) ==
    /\ earlier.name = later.name
    /\ Len(earlier.columns) = Len(later.columns)
    /\ \A i \in 1..Len(earlier.columns) :
          /\ Without(earlier.columns[i], {"precision", "scale"})
                = Without(later.columns[i], {"precision", "scale"})
          /\ \A k \in {"precision", "scale"} \cap DOMAIN later.columns[i] :
                /\ k \in DOMAIN earlier.columns[i]
                /\ earlier.columns[i][k] = later.columns[i][k]
    /\ \E i \in 1..Len(earlier.columns) :
          DOMAIN earlier.columns[i] # DOMAIN later.columns[i]

\* the message processed by this step is an INSERT or UPDATE of a replicated
\* table whose inferred schema is the cached schema of its table less a
\* precision or a scale
LessPreciseMessage(msg, schemas) ==
    /\ msg.op \in {"INSERT", "UPDATE"}
    /\ Replicated(msg.table)
    /\ TableName(msg.table) \in DOMAIN schemas
    /\ MorePreciseThan(schemas[TableName(msg.table)],
                       infer_table_schema(msg, IncludedFor(TableName(msg.table))))

NewestItem(items) == items[Len(items)]

\* msg is a DELETE of a replicated table with a cached schema, or an INSERT or
\* UPDATE whose fingerprint is the cached hash of its table
CacheHit(msg, schemas, hashes) ==
    /\ Replicated(msg.table)
    /\ TableName(msg.table) \in DOMAIN schemas
    /\ \/ msg.op = "DELETE"
       \/ /\ msg.op \in {"INSERT", "UPDATE"}
          /\ TableName(msg.table) \in DOMAIN hashes
          /\ hashes[TableName(msg.table)] = hash_typeinfo(msg.new_typeinfo)
\* the row of msg decoded with the columns of the schema cached for its table
DecodedWithCache(msg, schemas) ==
    gen_data_item(msg, schemas[TableName(msg.table)].columns,
                  IncludedFor(TableName(msg.table)))

\* C23: a step that processes a DELETE of a table with a cached schema, or an
\* INSERT or UPDATE whose fingerprint equals the cached hash, leaves
\* last_table_schema and last_table_hashes as they were, and the row is
\* decoded with the cached schema: the item appended is the one made from the
\* cached columns, and the step fails exactly when those columns lack a
\* column of the row
C23_CacheHitFrame ==
    [][(/\ n_msgs' = n_msgs + 1
        /\ CacheHit(last_msg', last_table_schema, last_table_hashes))
       => LET t == TableName(last_msg'.table)
              made == DecodedWithCache(last_msg', last_table_schema)
          IN /\ last_table_schema' = last_table_schema
             /\ last_table_hashes' = last_table_hashes
             /\ outcome' = (IF made.error = "none" THEN "ok" ELSE made.error)
             /\ outcome' = "ok" =>
                   /\ t \in DOMAIN data_items'
                   /\ NewestItem(data_items'[t]).vals = made.item.vals]_vars
\* a DELETE was decoded with the schema an INSERT of character varying had
\* cached: the null datum of column c became the dummy of the cached type
C23_Witness ==
    /\ last_msg.op = "DELETE"
    /\ outcome = "ok"
    /\ CacheHit(last_msg, last_table_schema, last_table_hashes)
    /\ "t" \in DOMAIN data_items
    /\ Len(data_items["t"]) >= 2
    /\ NewestItem(data_items["t"]).src.seq = n_msgs
    /\ \E i \in 1..Len(NewestItem(data_items["t"]).vals) :
          NewestItem(data_items["t"]).vals[i].val = [kind |-> "dummy", of |-> "text"]

\* C24: every table with buffered rows has a cached schema, and every group
\* handed to the caller carries a schema, the one of its table and never the
\* missing one
C24_GroupsHaveSchema ==
    /\ DOMAIN data_items \subseteq DOMAIN last_table_schema
    /\ \A g \in 1..Len(emitted) :
          /\ emitted[g].schema # NoSchema
          /\ emitted[g].schema.name = emitted[g].table
          /\ Len(emitted[g].schema.columns) >= 2
\* the groups of two tables were handed to the caller
C24_Witness ==
    /\ Len(emitted) = 2
    /\ DOMAIN data_items = {"t", "u"}
    /\ emitted[1].table # emitted[2].table

\* C25: the step in which a change message is rejected by the schema
\* reconciliation (StopReplication out of get_table_schema) leaves the
\* consumer as it was: no row is appended to data_items, and
\* last_table_schema, last_table_hashes, last_commit_lsn, last_commit_ts and
\* consumed_all keep their values
C25_RejectionFrame ==
    [][(/\ n_msgs' = n_msgs + 1
        /\ last_msg'.op \in Changes
        /\ outcome' = "StopReplication")
       => /\ data_items' = data_items
          /\ last_table_schema' = last_table_schema
          /\ last_table_hashes' = last_table_hashes
          /\ last_commit_lsn' = last_commit_lsn
          /\ last_commit_ts' = last_commit_ts
          /\ consumed_all' = consumed_all]_vars
\* a change was rejected after rows of its table were buffered in a
\* transaction following a committed one
C25_Witness ==
    /\ last_msg.op \in Changes
    /\ outcome = "StopReplication"
    /\ TableName(last_msg.table) \in DOMAIN data_items
    /\ last_commit_lsn # Unset
    /\ infer_table_schema(last_msg, IncludedFor(TableName(last_msg.table)))
         # last_table_schema[TableName(last_msg.table)]

\* the message processed last is a COMMIT at or beyond upto_lsn
CutoffCommit == last_msg.op = "COMMIT" /\ last_msg.data_start >= upto_lsn

\* C26: the consumer raises StopReplication at a COMMIT at or beyond upto_lsn
\* at the latest (the stream is read no further); once StopReplication has
\* ended the stream, the batch terminates: the finally block runs to its end
\* (to the close after the flush acknowledgement, when the caller iterates to
\* the last group and last_commit_lsn exists); and once the stream has ended,
\* consumed_all is true exactly when last_commit_lsn >= upto_lsn
C26_BatchTerminates ==
    /\ [](CutoffCommit => outcome = "StopReplication" /\ pc # "stream")
    /\ (exc = "StopReplication") ~> (pc = "done")
    /\ CutoffCommit ~> (pc = "done" /\ (abandoned \/ Has(events, "close")))
    /\ [](pc \in {"finally", "yield", "done"} =>
            (consumed_all <=> (last_commit_lsn # Unset /\ last_commit_lsn >= upto_lsn)))
\* a batch that buffered rows of two tables ended at the COMMIT that reached
\* upto_lsn and ran its finally block to the end
C26_Witness ==
    /\ CutoffCommit
    /\ last_msg.data_start = upto_lsn
    /\ pc = "done"
    /\ consumed_all
    /\ Len(emitted) = 2
    /\ Has(events, "close")

====
